---------------------------- MODULE Spec2Model ----------------------------
(***************************************************************************)
(* A model of disco/types/channel.py: the MessageIterator (a cursor-driven *)
(* paginator over a channel's message history) and Channel.get_permissions *)
(* (the fold of the channel's permission overwrites over the guild base),  *)
(* and Channel.delete_messages (the choice between single and bulk         *)
(* deletes).                                                               *)
(*                                                                         *)
(* A message is represented by its id (a snowflake: a positive integer,    *)
(* larger = newer).  The absent cursor (Python's None) is written None;    *)
(* the code tests cursors for truth (`any((before, after))`), and 0 is     *)
(* the one integer that is false, so None is modelled by 0.                *)
(*                                                                         *)
(* A permission bitmask is a natural number; the masks explored are those  *)
(* over the bit positions PermBits.                                        *)
(***************************************************************************)
EXTENDS Integers, Sequences, FiniteSets, TLC

\* ------------------------------------------------------------------ bounds
\* The longest channel history explored.
MaxMsgs == 4
\* The largest chunk_size (page limit) explored.
MaxChunk == 3
\* next() is called at most this many times on one paginator.
MaxCalls == 7
\* The most overwrites attached to a channel.
MaxOverwrites == 2
\* The longest list handed to delete_messages.
MaxDelete == 201
\* The remote fetch fails at most this many times for one paginator.
MaxFaults == 2
\* The two concurrent callers call next() at most this many times in all.
MaxConcCalls == 2

\* `len(messages) <= 2`: up to this many messages are deleted one by one.
SingleMax == 2
\* `chunks(messages, 100)`: the most ids one bulk delete carries.
BulkLimit == 100

None == 0

UP == "UP"
DOWN == "DOWN"

VARIABLES
    history,   \* the channel's messages (ids), oldest to newest; static
    args,      \* args[i]: the constructor arguments of paginator i
    pc,        \* pc[i]: "new" (not constructed), "ready", "ConfigError"
    its,       \* its[i]: the fields of paginator i
    api,       \* api[i]: the channels_messages_list calls paginator i issued
    out,       \* out[i]: what the caller of paginator i has observed
    channel,   \* the channel: guild_id and overwrites, in iteration order
    user,      \* the user whose permissions are asked for
    guild,     \* the channel's guild: its members and the user's base mask
    call,      \* the get_permissions call: not made, returned or raised
    deletion,  \* the delete_messages call: its input and the remote calls
    failed,    \* the remote fetches that failed, in order
    threads,   \* threads[t]: where caller t stands inside next()
    overlap    \* history variable: two next() calls have overlapped

iterVars == <<history, args, pc, its, api, out>>

permVars == <<channel, user, guild, call>>

otherVars == <<deletion, failed, threads, overlap>>

vars == <<history, args, pc, its, api, out, channel, user, guild, call,
          deletion, failed, threads, overlap>>

\* ------------------------------------------------------------ sequences
Min(a, b) == IF a < b THEN a ELSE b

Reverse(s) == [k \in 1..Len(s) |-> s[Len(s) + 1 - k]]

Range(s) == {s[k] : k \in 1..Len(s)}

\* The first n elements of s (all of s when it is shorter).
Take(s, n) == SubSeq(s, 1, Min(n, Len(s)))

\* The last n elements of s (all of s when it is shorter).
TakeLast(s, n) == SubSeq(s, Len(s) - Min(n, Len(s)) + 1, Len(s))

\* -------------------------------------------------- the remote collaborator
\* listMessages(channelId, before?, after?, limit): the messages strictly
\* between the cursors, newest first, at most `limit` of them.  A page is
\* anchored at the cursor it is asked from: the `limit` messages right after
\* `after` when only `after` is given, else the `limit` newest ones.
channels_messages_list(msgs, before, after, limit) ==
    LET InWindow(m) == /\ (before = None \/ m < before)
                       /\ (after = None \/ m > after)
        window == Reverse(SelectSeq(msgs, InWindow))
    IN  IF before = None /\ after # None
        THEN TakeLast(window, limit)
        ELSE Take(window, limit)

\* --------------------------------------------------------- MessageIterator
\* A slip in __init__: `all` for `any`, so that one cursor is not enough.
MessageIterator_init_all(a) ==
    [self   |-> [direction  |-> a.direction,
                 bulk       |-> a.bulk,
                 before     |-> a.before,
                 after      |-> a.after,
                 chunk_size |-> a.chunk_size,
                 last       |-> None,
                 buffer     |-> <<>>],
     raised |-> (~(a.before # None /\ a.after # None)) /\ a.direction = DOWN]

\* __init__: the fields are assigned, then a DOWN iterator given no cursor
\* raises.
MessageIterator_init(a) ==
    [self   |-> [direction  |-> a.direction,
                 bulk       |-> a.bulk,
                 before     |-> a.before,
                 after      |-> a.after,
                 chunk_size |-> a.chunk_size,
                 last       |-> None,
                 buffer     |-> <<>>],
     raised |-> (~(a.before # None \/ a.after # None)) /\ a.direction = DOWN]

\* ------------------------------------------- fill, statement by statement
\* The arguments of the request (lines 316-319): the cursors as they stand
\* when the request is issued.
fill_cursors(self) ==
    [before |-> self.before, after |-> self.after, limit |-> self.chunk_size]

\* The remote answer to a request q.
fill_answer(q, msgs) ==
    channels_messages_list(msgs, q.before, q.after, q.limit)

\* The right-hand side of fill's first statement: the request issued and
\* answered with nothing in between.
fill_request(self, msgs) == fill_answer(fill_cursors(self), msgs)

\* `self._buffer = <the page returned>`.
fill_assign(self, page) == [self EXCEPT !.buffer = page]

\* A slip in fill: the cursors are cleared before the request is made, so
\* a request that fails leaves them cleared.
fill_error_clears(self, e) ==
    [self |-> [self EXCEPT !.before = None, !.after = None], error |-> e]

\* The request raises e.  The assignment to _buffer never happens, fill
\* and __next__ have no handler, so e reaches the caller and self is as
\* it was.
fill_error(self, e) == [self |-> self, error |-> e]

\* `if not len(self._buffer)`: fill raises StopIteration.
fill_test(self) == Len(self.buffer) = 0

\* `self.after = None`
fill_clear_after(self) == [self EXCEPT !.after = None]

\* `self.before = None`
fill_clear_before(self) == [self EXCEPT !.before = None]

\* `self._buffer[-1].id`: IndexError on an empty list, which only another
\* caller's pop in between can leave.
fill_last_id(self) ==
    IF Len(self.buffer) = 0
    THEN [raised |-> TRUE, id |-> None]
    ELSE [raised |-> FALSE, id |-> self.buffer[Len(self.buffer)]]

\* `self.before = <the id read>`
fill_set_before(self, id) == [self EXCEPT !.before = id]

\* The direction's branch, run with nothing in between: UP reads the last
\* id and stores it in `before`; DOWN reverses the buffer and compares.
fill_set_cursor(self) ==
    LET l == fill_last_id(self)
    IN  IF self.direction = UP
        THEN IF l.raised
             THEN [self |-> self, raised |-> TRUE]
             ELSE [self |-> fill_set_before(self, l.id), raised |-> FALSE]
        ELSE [self   |-> [self EXCEPT !.buffer = Reverse(self.buffer)],
              raised |-> l.raised]

\* The statements of fill after the first, run with nothing in between:
\* the length test, the clearing of both cursors, the direction's branch.
fill_update(self) ==
    IF fill_test(self)
    THEN [self |-> self, raised |-> TRUE]
    ELSE [self   |-> fill_set_cursor(
                         fill_clear_before(fill_clear_after(self))).self,
          raised |-> FALSE]

\* `if not len(self._buffer)` at the head of __next__.
next_check(self) == Len(self.buffer) = 0

\* `res = self._buffer`
next_bulk_read(self) == self.buffer

\* `self._buffer = []`
next_bulk_reset(self) == [self EXCEPT !.buffer = <<>>]

\* A slip in __next__: the last element read but not removed.
next_pop_peek(self) ==
    IF Len(self.buffer) = 0
    THEN [self |-> self, raised |-> TRUE, value |-> <<>>]
    ELSE [self |-> self, raised |-> FALSE,
          value |-> <<self.buffer[Len(self.buffer)]>>]

\* `self._buffer.pop()`, which raises IndexError on an empty list.
next_pop(self) ==
    IF Len(self.buffer) = 0
    THEN [self |-> self, raised |-> TRUE, value |-> <<>>]
    ELSE [self   |-> [self EXCEPT !.buffer =
                                   SubSeq(self.buffer, 1, Len(self.buffer) - 1)],
          raised |-> FALSE,
          value  |-> <<self.buffer[Len(self.buffer)]>>]

\* The tail of __next__, run with nothing in between: the whole buffer in
\* bulk mode, else the pop.
next_take(self) ==
    IF self.bulk
    THEN [self   |-> next_bulk_reset(self),
          raised |-> FALSE, value |-> next_bulk_read(self)]
    ELSE next_pop(self)

\* A slip in fill: the UP cursor taken from the page's first message
\* (`self._buffer[0].id`) instead of its last.
fill_before_first(self, msgs) ==
    LET page   == channels_messages_list(msgs, self.before, self.after,
                                         self.chunk_size)
        filled == [self EXCEPT !.buffer = page]
        clear  == [filled EXCEPT !.after = None, !.before = None]
    IN  IF Len(page) = 0
        THEN [self |-> filled, raised |-> TRUE]
        ELSE IF self.direction = UP
        THEN [self   |-> [clear EXCEPT !.before = page[1]],
              raised |-> FALSE]
        ELSE [self   |-> [clear EXCEPT !.buffer = Reverse(page)],
              raised |-> FALSE]

\* A slip in fill: the cursors cleared before the empty page is noticed.
fill_clear_first(self, msgs) ==
    LET page   == channels_messages_list(msgs, self.before, self.after,
                                         self.chunk_size)
        filled == [self EXCEPT !.buffer = page]
        clear  == [filled EXCEPT !.after = None, !.before = None]
    IN  IF Len(page) = 0
        THEN [self |-> clear, raised |-> TRUE]
        ELSE IF self.direction = UP
        THEN [self   |-> [clear EXCEPT !.before = page[Len(page)]],
              raised |-> FALSE]
        ELSE [self   |-> [clear EXCEPT !.buffer = Reverse(page)],
              raised |-> FALSE]

\* A slip in fill: `self.after = None` left out.
fill_keep_after(self, msgs) ==
    LET page   == channels_messages_list(msgs, self.before, self.after,
                                         self.chunk_size)
        filled == [self EXCEPT !.buffer = page]
        clear  == [filled EXCEPT !.before = None]
    IN  IF Len(page) = 0
        THEN [self |-> filled, raised |-> TRUE]
        ELSE IF self.direction = UP
        THEN [self   |-> [clear EXCEPT !.before = page[Len(page)]],
              raised |-> FALSE]
        ELSE [self   |-> [clear EXCEPT !.buffer = Reverse(page)],
              raised |-> FALSE]

\* A slip in fill: the DOWN page left as it arrived, not reversed.
fill_no_reverse(self, msgs) ==
    LET page   == channels_messages_list(msgs, self.before, self.after,
                                         self.chunk_size)
        filled == [self EXCEPT !.buffer = page]
        clear  == [filled EXCEPT !.after = None, !.before = None]
    IN  IF Len(page) = 0
        THEN [self |-> filled, raised |-> TRUE]
        ELSE IF self.direction = UP
        THEN [self   |-> [clear EXCEPT !.before = page[Len(page)]],
              raised |-> FALSE]
        ELSE [self |-> clear, raised |-> FALSE]

\* fill: one fetch with the current cursors.  An empty page raises
\* StopIteration with the cursors untouched.  Otherwise both cursors are
\* cleared; UP sets `before` to the id of the page's last message; DOWN
\* reverses the buffer, and its last statement is the comparison
\* `self.after == self._buffer[-1].id`, which assigns nothing.
fill(self, msgs) ==
    fill_update(fill_assign(self, fill_request(self, msgs)))

\* A slip in __next__: the last element read (`self._buffer[-1]`) but not
\* removed.
MessageIterator_next_peek(self, msgs) ==
    LET fetch == Len(self.buffer) = 0
        f     == IF fetch THEN fill(self, msgs)
                          ELSE [self |-> self, raised |-> FALSE]
        s     == f.self
    IN  IF f.raised
        THEN [self |-> s, fetched |-> fetch, stop |-> TRUE, value |-> <<>>]
        ELSE IF s.bulk
        THEN [self    |-> [s EXCEPT !.buffer = <<>>],
              fetched |-> fetch, stop |-> FALSE, value |-> s.buffer]
        ELSE [self    |-> s,
              fetched |-> fetch, stop |-> FALSE,
              value   |-> <<s.buffer[Len(s.buffer)]>>]

\* A slip in __next__: bulk mode hands out the buffer without the message
\* a pop would have taken.
MessageIterator_next_bulk_short(self, msgs) ==
    LET fetch == Len(self.buffer) = 0
        f     == IF fetch THEN fill(self, msgs)
                          ELSE [self |-> self, raised |-> FALSE]
        s     == f.self
    IN  IF f.raised
        THEN [self |-> s, fetched |-> fetch, stop |-> TRUE, value |-> <<>>]
        ELSE IF s.bulk
        THEN [self    |-> [s EXCEPT !.buffer = <<>>],
              fetched |-> fetch, stop |-> FALSE,
              value   |-> SubSeq(s.buffer, 1, Len(s.buffer) - 1)]
        ELSE [self    |-> [s EXCEPT !.buffer =
                                     SubSeq(s.buffer, 1, Len(s.buffer) - 1)],
              fetched |-> fetch, stop |-> FALSE,
              value   |-> <<s.buffer[Len(s.buffer)]>>]

\* __next__: fill when the buffer is empty (StopIteration passes through);
\* then the whole buffer in bulk mode, else the buffer's last element.
\* value is the sequence of message ids handed to the caller.
MessageIterator_next(self, msgs) ==
    LET fetch == next_check(self)
        f     == IF fetch THEN fill(self, msgs)
                          ELSE [self |-> self, raised |-> FALSE]
        t     == next_take(f.self)
    IN  IF f.raised
        THEN [self |-> f.self, fetched |-> fetch, stop |-> TRUE,
              value |-> <<>>]
        ELSE [self |-> t.self, fetched |-> fetch, stop |-> FALSE,
              value |-> t.value]

\* ------------------------------------------------------- permission masks
\* The bit positions explored: CREATE_INSTANT_INVITE (0), ADMINISTRATOR (3).
PermBits == {0, 3}

\* The highest bit position a mask may use, plus one.
PermWidth == 4

ADMINISTRATOR == 8

Pow2(k) == 2 ^ k

HasBit(v, k) == (v \div Pow2(k)) % 2 = 1

RECURSIVE MaskOf(_)
MaskOf(bits) ==
    IF bits = {} THEN 0
    ELSE LET k == CHOOSE b \in bits : TRUE
         IN  Pow2(k) + MaskOf(bits \ {k})

BitsOf(v) == {k \in 0..(PermWidth - 1) : HasBit(v, k)}

\* a & b, bit by bit from the lowest.
RECURSIVE BitAnd(_, _)
BitAnd(a, b) ==
    IF a = 0 \/ b = 0 THEN 0
    ELSE (a % 2) * (b % 2) + 2 * BitAnd(a \div 2, b \div 2)

\* PermissionValue `+=` (value |= other): the bits of either mask.
perm_add(a, b) == a + b - BitAnd(a, b)

\* PermissionValue `-=` (value &= ~other): the bits of a that are not
\* bits of b.
perm_sub(a, b) == a - BitAnd(a, b)

\* ------------------------------------------------- Channel.get_permissions
\* guild.members.get(user.id): the member, or None (found = FALSE).
members_get(members, id) ==
    IF id \in DOMAIN members
    THEN [found |-> TRUE, roles |-> members[id].roles]
    ELSE [found |-> FALSE, roles |-> {}]

\* A slip in the loop's test: the `not` of `not in` lost.
overwrite_skipped_in(ow, usr, member) ==
    ow.id # usr.id /\ ow.id \in member.roles

\* The loop's test `ow.id != user.id and ow.id not in member.roles`.
overwrite_skipped(ow, usr, member) ==
    ow.id # usr.id /\ ow.id \notin member.roles

\* A slip in the loop's body: `base += ow.allow` before `base -= ow.deny`.
RECURSIVE apply_overwrites_allow_first(_, _, _, _)
apply_overwrites_allow_first(ows, usr, member, base) ==
    IF ows = <<>>
    THEN [raised |-> FALSE, value |-> base]
    ELSE LET ow == Head(ows)
         IN  IF ow.id # usr.id /\ ~member.found
             THEN [raised |-> TRUE, value |-> base]
             ELSE IF overwrite_skipped(ow, usr, member)
             THEN apply_overwrites_allow_first(Tail(ows), usr, member, base)
             ELSE apply_overwrites_allow_first(
                      Tail(ows), usr, member,
                      perm_sub(perm_add(base, ow.allow), ow.deny))

\* A slip in the loop: the matching overwrites merged into one deny mask
\* and one allow mask, applied once.
apply_overwrites_merged(ows, usr, member, base) ==
    LET hit   == {k \in 1..Len(ows) : ~overwrite_skipped(ows[k], usr, member)}
        deny  == UNION {BitsOf(ows[k].deny) : k \in hit}
        allow == UNION {BitsOf(ows[k].allow) : k \in hit}
    IN  IF \E k \in 1..Len(ows) : ows[k].id # usr.id /\ ~member.found
        THEN [raised |-> TRUE, value |-> base]
        ELSE [raised |-> FALSE,
              value  |-> MaskOf((BitsOf(base) \ deny) \cup allow)]

\* A slip in the loop: it is left after the first matching overwrite.
RECURSIVE apply_overwrites_first_only(_, _, _, _)
apply_overwrites_first_only(ows, usr, member, base) ==
    IF ows = <<>>
    THEN [raised |-> FALSE, value |-> base]
    ELSE LET ow == Head(ows)
         IN  IF ow.id # usr.id /\ ~member.found
             THEN [raised |-> TRUE, value |-> base]
             ELSE IF overwrite_skipped(ow, usr, member)
             THEN apply_overwrites_first_only(Tail(ows), usr, member, base)
             ELSE [raised |-> FALSE,
                   value  |-> perm_add(perm_sub(base, ow.deny), ow.allow)]

\* The loop over the overwrites, in iteration order.  `member.roles` is
\* evaluated only when the overwrite is not the user's own (`and` is
\* short-circuit); with member = None it raises AttributeError.
RECURSIVE apply_overwrites(_, _, _, _)
apply_overwrites(ows, usr, member, base) ==
    IF ows = <<>>
    THEN [raised |-> FALSE, value |-> base]
    ELSE LET ow == Head(ows)
         IN  IF ow.id # usr.id /\ ~member.found
             THEN [raised |-> TRUE, value |-> base]
             ELSE IF overwrite_skipped(ow, usr, member)
             THEN apply_overwrites(Tail(ows), usr, member, base)
             ELSE apply_overwrites(Tail(ows), usr, member,
                                   perm_add(perm_sub(base, ow.deny), ow.allow))

\* A slip in get_permissions: the test of guild_id left out.
get_permissions_no_shortcut(ch, usr, gld) ==
    LET member == members_get(gld.members, usr.id)
        r      == apply_overwrites(ch.overwrites, usr, member, gld.permissions)
    IN  [raised  |-> r.raised,
         value   |-> r.value,
         lookups |-> <<"guild", "members.get", "guild.get_permissions">>]

\* get_permissions: ADMINISTRATOR for a channel without guild_id; else the
\* member and the guild base are looked up and the overwrites applied.
\* lookups lists the collaborator lookups made.
get_permissions(ch, usr, gld) ==
    IF ch.guild_id = None
    THEN [raised |-> FALSE, value |-> ADMINISTRATOR, lookups |-> <<>>]
    ELSE LET member == members_get(gld.members, usr.id)
             r      == apply_overwrites(ch.overwrites, usr, member,
                                        gld.permissions)
         IN  [raised  |-> r.raised,
              value   |-> r.value,
              lookups |-> <<"guild", "members.get", "guild.get_permissions">>]

\* --------------------------------------------------------- delete_messages
\* The interpreters the module is written for (it goes through `six`).
Python == {2, 3}

\* to_snowflake: a message gives its id, an id gives itself.
to_snowflake(x) == [kind |-> "snowflake", id |-> x.id]

\* chunks(l, size): the successive slices of l, each of `size` elements
\* but the last, which has what is left.
RECURSIVE chunks(_, _)
chunks(l, size) ==
    IF Len(l) = 0 THEN <<>>
    ELSE <<Take(l, size)>> \o chunks(SubSeq(l, Min(size, Len(l)) + 1, Len(l)),
                                     size)

\* delete_message: one channels_messages_delete call.
delete_message(message) ==
    [route |-> "channels_messages_delete", ids |-> <<to_snowflake(message).id>>]

\* delete_messages.  `map` gives a list on Python 2 and an iterator on
\* Python 3; an iterator is never false and has no len().
delete_messages(python, input) ==
    LET messages == [k \in 1..Len(input) |-> to_snowflake(input[k])]
        lazy     == python = 3
        parts    == chunks(messages, BulkLimit)
    IN  IF ~lazy /\ Len(messages) = 0
        THEN [calls |-> <<>>, raised |-> "none"]
        ELSE IF lazy
        THEN [calls |-> <<>>, raised |-> "TypeError"]
        ELSE IF Len(messages) <= SingleMax
        THEN [calls  |-> [k \in 1..Len(messages) |->
                             delete_message(messages[k])],
              raised |-> "none"]
        ELSE [calls  |-> [k \in 1..Len(parts) |->
                             [route |-> "channels_messages_delete_bulk",
                              ids   |-> [j \in 1..Len(parts[k]) |->
                                            parts[k][j].id]]],
              raised |-> "none"]

\* ------------------------------------------------------------------ state
Histories == {[k \in 1..n |-> k] : n \in 0..MaxMsgs}

Cursors(h) == 0..(Len(h) + 1)

ArgSets(h) == [direction  : {UP, DOWN},
               bulk       : BOOLEAN,
               before     : Cursors(h),
               after      : Cursors(h),
               chunk_size : 1..MaxChunk]

NoSelf == [direction |-> UP, bulk |-> FALSE, before |-> None, after |-> None,
           chunk_size |-> 1, last |-> None, buffer |-> <<>>]

NoOut == [calls   |-> 0,       \* next() calls made
          result  |-> "none",  \* of the last next(): "value" or "stop"
          value   |-> <<>>,    \* what the last next() returned
          yielded |-> <<>>,    \* every message id delivered so far, in order
          batches |-> <<>>,    \* the value of every next() that returned
          stops   |-> 0]       \* next() calls that ended in StopIteration

\* No permission question is asked.
PermIdle ==
    /\ channel = [guild_id |-> None, overwrites |-> <<>>]
    /\ user = [id |-> 1]
    /\ guild = [members |-> <<>>, permissions |-> 0]
    /\ call = [state |-> "idle", value |-> 0, lookups |-> <<>>]

\* No paginator exists.
IterIdle ==
    /\ history = <<>>
    /\ args = <<>>
    /\ pc = <<>>
    /\ its = <<>>
    /\ api = <<>>
    /\ out = <<>>

NoDeletion == [python |-> 2, input |-> <<>>, state |-> "idle",
               calls |-> <<>>, error |-> "none"]

\* delete_messages is not called.
DeleteIdle == deletion = NoDeletion

\* next() has one caller at a time.
ConcIdle ==
    /\ threads = <<>>
    /\ overlap = FALSE

\* One paginator over a history.
Init ==
    /\ PermIdle
    /\ DeleteIdle
    /\ ConcIdle
    /\ failed = <<>>
    /\ history \in Histories
    /\ args \in [{1} -> ArgSets(history)]
    /\ pc = [i \in {1} |-> "new"]
    /\ its = [i \in {1} |-> NoSelf]
    /\ api = [i \in {1} |-> <<>>]
    /\ out = [i \in {1} |-> NoOut]

\* MessageIterator(client, channel, **kwargs)
Construct(i) ==
    /\ pc[i] = "new"
    /\ LET r == MessageIterator_init(args[i])
       IN  /\ pc' = [pc EXCEPT ![i] = IF r.raised THEN "ConfigError" ELSE "ready"]
           /\ its' = [its EXCEPT ![i] = IF r.raised THEN NoSelf ELSE r.self]
    /\ UNCHANGED <<history, args, api, out>>
    /\ UNCHANGED permVars
    /\ UNCHANGED otherVars

\* One call of next() on paginator i, start to finish.
CallNext(i) ==
    /\ pc[i] = "ready"
    /\ out[i].calls < MaxCalls
    /\ LET r == MessageIterator_next(its[i], history)
           o == out[i]
       IN  /\ its' = [its EXCEPT ![i] = r.self]
           /\ api' = [api EXCEPT ![i] =
                        IF r.fetched
                        THEN Append(@, [before |-> its[i].before,
                                        after  |-> its[i].after,
                                        limit  |-> its[i].chunk_size,
                                        page   |-> channels_messages_list(
                                                     history, its[i].before,
                                                     its[i].after,
                                                     its[i].chunk_size)])
                        ELSE @]
           /\ out' = [out EXCEPT ![i] =
                        [calls   |-> o.calls + 1,
                         result  |-> IF r.stop THEN "stop" ELSE "value",
                         value   |-> r.value,
                         yielded |-> o.yielded \o r.value,
                         batches |-> IF r.stop THEN o.batches
                                     ELSE Append(o.batches, r.value),
                         stops   |-> o.stops + (IF r.stop THEN 1 ELSE 0)]]
    /\ UNCHANGED <<history, args, pc>>
    /\ UNCHANGED permVars
    /\ UNCHANGED otherVars

ConstructSome == \E i \in DOMAIN its : Construct(i)

CallNextSome == \E i \in DOMAIN its : CallNext(i)

Next ==
    \/ ConstructSome
    \/ CallNextSome

Spec == Init /\ [][Next]_vars

\* fill() called by the consumer itself (it is a public method): one
\* request with the current cursors, the buffer replaced by the page, the
\* cursors moved, and nothing delivered; what the buffer held is dropped.
\* StopIteration on an empty page goes to the consumer, outside any next().
CallFill(i) ==
    /\ pc[i] = "ready"
    /\ Len(api[i]) < MaxCalls
    /\ LET r == fill(its[i], history)
       IN  /\ its' = [its EXCEPT ![i] = r.self]
           /\ api' = [api EXCEPT ![i] =
                        Append(@, [before |-> its[i].before,
                                   after  |-> its[i].after,
                                   limit  |-> its[i].chunk_size,
                                   page   |-> fill_request(its[i], history)])]
    /\ UNCHANGED <<history, args, pc, out>>
    /\ UNCHANGED permVars
    /\ UNCHANGED otherVars

CallFillSome == \E i \in DOMAIN its : CallFill(i)

\* A consumer that calls fill() as well as next().  Spec, the consumer
\* that only calls next(), is the scan the paginator is documented for.
NextFill ==
    \/ ConstructSome
    \/ CallNextSome
    \/ CallFillSome

SpecFill == Init /\ [][NextFill]_vars

\* Two paginators over the same history, built from the same arguments
\* except for the output mode: 1 yields single messages, 2 yields batches.
InitPair ==
    /\ PermIdle
    /\ DeleteIdle
    /\ ConcIdle
    /\ failed = <<>>
    /\ history \in Histories
    /\ args \in [{1, 2} -> ArgSets(history)]
    /\ ~args[1].bulk
    /\ args[2] = [args[1] EXCEPT !.bulk = TRUE]
    /\ pc = [i \in {1, 2} |-> "new"]
    /\ its = [i \in {1, 2} |-> NoSelf]
    /\ api = [i \in {1, 2} |-> <<>>]
    /\ out = [i \in {1, 2} |-> NoOut]

SpecPair == InitPair /\ [][Next]_vars

\* ------------------------------------------------- the permission question
UserIds == {1, 2}

RoleIds == {3, 4}

GuildIds == {None, 5}

\* The ids overwrites are attached to: a user's, and the two roles'.
OverwriteIds == {1, 3, 4}

Masks == {MaskOf(b) : b \in SUBSET PermBits}

OverwriteType(id) == IF id \in UserIds THEN "member" ELSE "role"

Overwrites == {[id |-> i, type |-> OverwriteType(i), allow |-> a, deny |-> d] :
                  i \in OverwriteIds, a \in Masks, d \in Masks}

\* The overwrites dict, as the sequence of its values in iteration order:
\* any order, the ids (the keys) distinct.
OverwriteDicts ==
    UNION {{s \in [1..n -> Overwrites] :
               \A j, k \in 1..n : j # k => s[j].id # s[k].id} :
           n \in 0..MaxOverwrites}

\* guild.members, as far as the user is concerned: not a member, or a
\* member with some of the roles.
MemberDicts(uid) ==
    {<<>>} \cup {[u \in {uid} |-> [roles |-> r]] : r \in {{}, {3}, {3, 4}}}

InitPerm ==
    /\ IterIdle
    /\ DeleteIdle
    /\ ConcIdle
    /\ failed = <<>>
    /\ channel \in [guild_id : GuildIds, overwrites : OverwriteDicts]
    /\ user \in [id : UserIds]
    /\ guild \in {[members |-> m, permissions |-> b] :
                     m \in MemberDicts(user.id), b \in Masks}
    \* a channel without guild_id has no guild behind it
    /\ channel.guild_id = None => guild = [members |-> <<>>, permissions |-> 0]
    /\ call = [state |-> "idle", value |-> 0, lookups |-> <<>>]

\* channel.get_permissions(user)
GetPermissions ==
    /\ call.state = "idle"
    /\ LET r == get_permissions(channel, user, guild)
       IN  call' = [state   |-> IF r.raised THEN "raised" ELSE "returned",
                    value   |-> r.value,
                    lookups |-> r.lookups]
    /\ UNCHANGED <<channel, user, guild>>
    /\ UNCHANGED iterVars
    /\ UNCHANGED otherVars

NextPerm == GetPermissions

SpecPerm == InitPerm /\ [][NextPerm]_vars

\* ------------------------------------------------------ the delete call
\* The lists handed to delete_messages: n items, all ids or all messages,
\* the ids ascending or descending.
DeleteInputs ==
    {[k \in 1..n |-> [kind |-> kd, id |-> IF up THEN k ELSE n + 1 - k]] :
        n \in 0..MaxDelete, kd \in {"snowflake", "message"}, up \in BOOLEAN}

InitDelete ==
    /\ IterIdle
    /\ PermIdle
    /\ ConcIdle
    /\ failed = <<>>
    /\ deletion \in {[NoDeletion EXCEPT !.python = p, !.input = m] :
                        p \in Python, m \in DeleteInputs}

\* channel.delete_messages(messages)
DeleteMessages ==
    /\ deletion.state = "idle"
    /\ LET r == delete_messages(deletion.python, deletion.input)
       IN  deletion' = [deletion EXCEPT
                          !.state = IF r.raised = "none" THEN "returned"
                                                         ELSE "raised",
                          !.calls = r.calls,
                          !.error = r.raised]
    /\ UNCHANGED iterVars
    /\ UNCHANGED permVars
    /\ UNCHANGED <<failed, threads, overlap>>

NextDelete == DeleteMessages

SpecDelete == InitDelete /\ [][NextDelete]_vars

\* ------------------------------------------------- a remote fetch that fails
\* What the remote call may raise.
Errors == {"APIException", "Timeout"}

\* One call of next() on paginator i whose fetch raises e.
FailNext(i) ==
    /\ pc[i] = "ready"
    /\ out[i].calls < MaxCalls
    /\ Len(failed) < MaxFaults
    /\ next_check(its[i])
    /\ \E e \in Errors :
         LET r == fill_error(its[i], e)
         IN  /\ its' = [its EXCEPT ![i] = r.self]
             /\ failed' = Append(failed, [it       |-> i,
                                          before   |-> its[i].before,
                                          after    |-> its[i].after,
                                          limit    |-> its[i].chunk_size,
                                          upstream |-> e,
                                          seen     |-> r.error])
             /\ out' = [out EXCEPT ![i] = [@ EXCEPT !.calls = @ + 1,
                                                    !.result = "error",
                                                    !.value = <<>>]]
    /\ UNCHANGED <<history, args, pc, api>>
    /\ UNCHANGED permVars
    /\ UNCHANGED <<deletion, threads, overlap>>

FailNextSome == \E i \in DOMAIN its : FailNext(i)

NextFail ==
    \/ ConstructSome
    \/ CallNextSome
    \/ FailNextSome

SpecFail == Init /\ [][NextFail]_vars

\* ------------------------------------------- two callers of one paginator
\* A step of a caller is one access to what the callers share.  A line
\* that reads the paginator and then writes it (328), or loads the buffer
\* and then changes it (348), is two steps.  A line that only reads (340,
\* 321, the arguments of 315-319) is one: the values it sees are those of
\* a single moment between its first and its last read.
Callers == {1, 2}

NoRequest == [before |-> None, after |-> None, limit |-> 0]

\* A caller outside next().  req is its request in flight, res the value
\* it is about to return, last the id it has read on line 328
\* and not yet stored.  held tells which list the caller has loaded on
\* line 348 to pop from: "none", "live" (the list self._buffer still is)
\* or "old" (a list self._buffer has been rebound away from since, whose
\* elements are in list; with two callers nobody else refers to it).
NoThread == [pc |-> "idle", calls |-> 0, got |-> <<>>, result |-> "none",
             req |-> NoRequest, res |-> <<>>, last |-> None,
             held |-> "none", list |-> <<>>]

\* One UP paginator, shared by the callers.
InitConc ==
    /\ PermIdle
    /\ DeleteIdle
    /\ failed = <<>>
    /\ history \in Histories
    /\ args \in [{1} -> {a \in ArgSets(history) : a.direction = UP}]
    /\ pc = [i \in {1} |-> "new"]
    /\ its = [i \in {1} |-> NoSelf]
    /\ api = [i \in {1} |-> <<>>]
    /\ out = [i \in {1} |-> NoOut]
    /\ threads = [t \in Callers |-> NoThread]
    /\ overlap = FALSE

\* What a step of a caller leaves alone, whatever the step.
ThreadFrame ==
    /\ UNCHANGED <<history, args, pc>>
    /\ UNCHANGED permVars
    /\ UNCHANGED <<deletion, failed>>

\* Caller t's next() raises exc: the exception is on its way to the caller.
ThreadRaise(t, exc) ==
    threads' = [threads EXCEPT ![t] = [@ EXCEPT !.pc = "leave",
                                                !.result = exc,
                                                !.res = <<>>,
                                                !.last = None,
                                                !.held = "none",
                                                !.list = <<>>]]

\* Caller t's next() has its return value v: the return is still to come.
ThreadReturn(t, v) ==
    threads' = [threads EXCEPT ![t] = [@ EXCEPT !.pc = "leave",
                                                !.result = "value",
                                                !.res = v,
                                                !.held = "none",
                                                !.list = <<>>]]

\* self._buffer is rebound to a new list: a caller that has loaded the
\* list it was (buf) goes on holding that one.
Rebound(th, buf) ==
    IF th.held = "live" THEN [th EXCEPT !.held = "old", !.list = buf] ELSE th

\* Line 340: caller t enters next() and tests the buffer.
ThreadCheck(t) ==
    /\ pc[1] = "ready"
    /\ threads[t].pc = "idle"
    /\ out[1].calls < MaxConcCalls
    /\ threads' = [threads EXCEPT ![t].pc = IF next_check(its[1])
                                            THEN "request" ELSE "take",
                                   ![t].calls = @ + 1]
    /\ overlap' = (overlap \/ \E u \in Callers \ {t} : threads[u].pc # "idle")
    /\ out' = [out EXCEPT ![1].calls = @ + 1]
    /\ UNCHANGED <<its, api>>
    /\ ThreadFrame

\* Lines 315-319, the call: caller t issues the request with the cursors
\* of this moment and waits for the answer.
ThreadRequest(t) ==
    /\ threads[t].pc = "request"
    /\ threads' = [threads EXCEPT ![t].pc = "answer",
                                   ![t].req = fill_cursors(its[1])]
    /\ UNCHANGED <<its, api, out, overlap>>
    /\ ThreadFrame

\* Line 315, the assignment: the answer to caller t's request arrives and
\* is stored in the buffer.
ThreadStore(t) ==
    /\ threads[t].pc = "answer"
    /\ LET q    == threads[t].req
           page == fill_answer(q, history)
       IN  /\ its' = [its EXCEPT ![1] = fill_assign(@, page)]
           /\ api' = [api EXCEPT ![1] = Append(@, [before |-> q.before,
                                                   after  |-> q.after,
                                                   limit  |-> q.limit,
                                                   page   |-> page])]
    /\ threads' = [u \in Callers |->
                      IF u = t
                      THEN [threads[u] EXCEPT !.pc = "test", !.req = NoRequest]
                      ELSE Rebound(threads[u], its[1].buffer)]
    /\ UNCHANGED <<out, overlap>>
    /\ ThreadFrame

\* Lines 321-322: StopIteration when the buffer is empty.
ThreadTest(t) ==
    /\ threads[t].pc = "test"
    /\ IF fill_test(its[1])
       THEN ThreadRaise(t, "stop")
       ELSE threads' = [threads EXCEPT ![t].pc = "clear_after"]
    /\ UNCHANGED <<its, api, out, overlap>>
    /\ ThreadFrame

\* Line 324.
ThreadClearAfter(t) ==
    /\ threads[t].pc = "clear_after"
    /\ its' = [its EXCEPT ![1] = fill_clear_after(@)]
    /\ threads' = [threads EXCEPT ![t].pc = "clear_before"]
    /\ UNCHANGED <<api, out, overlap>>
    /\ ThreadFrame

\* Line 325.
ThreadClearBefore(t) ==
    /\ threads[t].pc = "clear_before"
    /\ its' = [its EXCEPT ![1] = fill_clear_before(@)]
    /\ threads' = [threads EXCEPT ![t].pc = "read_last"]
    /\ UNCHANGED <<api, out, overlap>>
    /\ ThreadFrame

\* Lines 327-328, the right-hand side: the id of the buffer's last
\* message is read, or IndexError leaves fill when the other caller has
\* emptied the buffer since the test.
ThreadReadLast(t) ==
    /\ threads[t].pc = "read_last"
    /\ LET l == fill_last_id(its[1])
       IN  IF l.raised
           THEN ThreadRaise(t, "IndexError")
           ELSE threads' = [threads EXCEPT ![t].pc = "set_before",
                                           ![t].last = l.id]
    /\ UNCHANGED <<its, api, out, overlap>>
    /\ ThreadFrame

\* Line 328, the assignment: the id read is stored in `before`.
ThreadSetBefore(t) ==
    /\ threads[t].pc = "set_before"
    /\ its' = [its EXCEPT ![1] = fill_set_before(@, threads[t].last)]
    /\ threads' = [threads EXCEPT ![t].pc = "take", ![t].last = None]
    /\ UNCHANGED <<api, out, overlap>>
    /\ ThreadFrame

\* Lines 343, 348: per-message mode, `self._buffer` is loaded.
ThreadLoadBuffer(t) ==
    /\ threads[t].pc = "take"
    /\ ~its[1].bulk
    /\ threads' = [threads EXCEPT ![t].pc = "pop", ![t].held = "live"]
    /\ UNCHANGED <<its, api, out, overlap>>
    /\ ThreadFrame

\* Line 348: pop() on the list loaded.  The list is the paginator's
\* buffer unless that has been rebound in between.
ThreadPop(t) ==
    /\ threads[t].pc = "pop"
    /\ LET live == threads[t].held = "live"
           r    == next_pop(IF live THEN its[1]
                            ELSE [its[1] EXCEPT !.buffer = threads[t].list])
       IN  /\ its' = [its EXCEPT ![1] = IF live THEN r.self ELSE @]
           /\ IF r.raised
              THEN ThreadRaise(t, "IndexError")
              ELSE ThreadReturn(t, r.value)
    /\ UNCHANGED <<api, out, overlap>>
    /\ ThreadFrame

\* Lines 343-344: bulk mode, `res = self._buffer`.
ThreadBulkRead(t) ==
    /\ threads[t].pc = "take"
    /\ its[1].bulk
    /\ threads' = [threads EXCEPT ![t].pc = "reset",
                                   ![t].res = next_bulk_read(its[1])]
    /\ UNCHANGED <<its, api, out, overlap>>
    /\ ThreadFrame

\* Line 345: bulk mode, `self._buffer = []`.
ThreadBulkReset(t) ==
    /\ threads[t].pc = "reset"
    /\ its' = [its EXCEPT ![1] = next_bulk_reset(@)]
    /\ ThreadReturn(t, threads[t].res)
    /\ UNCHANGED <<api, out, overlap>>
    /\ ThreadFrame

\* Lines 346, 348, or an exception on its way out: caller t leaves next()
\* and has its value (`return res`, the popped message) or the exception.
ThreadLeave(t) ==
    /\ threads[t].pc = "leave"
    /\ LET th  == threads[t]
           ok  == th.result = "value"
       IN  /\ threads' = [threads EXCEPT ![t] = [@ EXCEPT !.pc = "idle",
                                                          !.got = @ \o th.res,
                                                          !.res = <<>>]]
           /\ out' = [out EXCEPT
                        ![1].result = th.result,
                        ![1].value = th.res,
                        ![1].yielded = @ \o th.res,
                        ![1].batches = IF ok THEN Append(@, th.res) ELSE @,
                        ![1].stops = @ + (IF th.result = "stop" THEN 1 ELSE 0)]
    /\ UNCHANGED <<its, api, overlap>>
    /\ ThreadFrame

ThreadCheckSome == \E t \in Callers : ThreadCheck(t)

ThreadRequestSome == \E t \in Callers : ThreadRequest(t)

ThreadStoreSome == \E t \in Callers : ThreadStore(t)

ThreadTestSome == \E t \in Callers : ThreadTest(t)

ThreadClearAfterSome == \E t \in Callers : ThreadClearAfter(t)

ThreadClearBeforeSome == \E t \in Callers : ThreadClearBefore(t)

ThreadReadLastSome == \E t \in Callers : ThreadReadLast(t)

ThreadSetBeforeSome == \E t \in Callers : ThreadSetBefore(t)

ThreadLoadBufferSome == \E t \in Callers : ThreadLoadBuffer(t)

ThreadPopSome == \E t \in Callers : ThreadPop(t)

ThreadBulkReadSome == \E t \in Callers : ThreadBulkRead(t)

ThreadBulkResetSome == \E t \in Callers : ThreadBulkReset(t)

ThreadLeaveSome == \E t \in Callers : ThreadLeave(t)

NextConc ==
    \/ ConstructSome
    \/ ThreadCheckSome
    \/ ThreadRequestSome
    \/ ThreadStoreSome
    \/ ThreadTestSome
    \/ ThreadClearAfterSome
    \/ ThreadClearBeforeSome
    \/ ThreadReadLastSome
    \/ ThreadSetBeforeSome
    \/ ThreadLoadBufferSome
    \/ ThreadPopSome
    \/ ThreadBulkReadSome
    \/ ThreadBulkResetSome
    \/ ThreadLeaveSome

SpecConc == InitConc /\ [][NextConc]_vars


\* ===================================================================
\* The paginator's properties.  Under Spec there is one paginator, 1.
\* ===================================================================
NoDuplicates(s) == \A j, k \in 1..Len(s) : j # k => s[j] # s[k]

\* The pages of the fetches that returned messages, in order.
NonEmptyPages(log) ==
    LET HasPage(c) == c.page # <<>>
        calls == SelectSeq(log, HasPage)
    IN  [k \in 1..Len(calls) |-> calls[k].page]

\* ---- C1: UP, bulk, no cursor -------------------------------------
\* Page k of an UP bulk scan of m1..mN with chunk size c, stated from N, c
\* and k alone: the ids N-(k-1)c down to max(N-kc+1, 1).
ExpectedPage(n, c, k) ==
    [j \in 1..Min(c, n - (k - 1) * c) |-> n - (k - 1) * c - j + 1]

ExpectedPageCount(n, c) == (n + c - 1) \div c

C1_Scan ==
    /\ pc[1] = "ready"
    /\ args[1].direction = UP /\ args[1].bulk
    /\ args[1].before = None /\ args[1].after = None

\* C1: an UP bulk scan without cursor over m1..mN with chunk size c returns
\* exactly ceil(N/c) pages, page k being the c newest messages older than
\* page k-1, newest first, and every next() after the last page signals
\* end-of-sequence.
C1_UpBulkPages ==
    C1_Scan =>
        LET n   == Len(history)
            c   == args[1].chunk_size
            np  == ExpectedPageCount(n, c)
            got == out[1].batches
        IN  /\ Len(got) = Min(out[1].calls, np)
            /\ \A k \in 1..Len(got) : got[k] = ExpectedPage(n, c, k)
            /\ out[1].stops = out[1].calls - Len(got)
            /\ out[1].calls > np => out[1].result = "stop"

\* A scan of 4 messages in pages of 3 has returned <<4,3,2>> and <<1>> and
\* then signalled the end.
C1_Witness ==
    /\ C1_Scan
    /\ Len(history) = 4 /\ args[1].chunk_size = 3
    /\ out[1].batches = << <<4, 3, 2>>, <<1>> >>
    /\ out[1].result = "stop"

\* ---- C2: UP, per message ------------------------------------------
\* Any UP per-message scan.
C2_AnyScan ==
    /\ pc[1] = "ready"
    /\ args[1].direction = UP /\ ~args[1].bulk

\* An UP per-message scan constructed without an `after` cursor.
C2_Scan ==
    /\ C2_AnyScan
    /\ args[1].after = None

\* The messages an UP scan is to deliver: those older than the initial
\* `before` cursor, all of them when there is none.
OlderThanBefore ==
    {m \in Range(history) : args[1].before = None \/ m < args[1].before}

\* C2 as stated, for every UP per-message scan: no id is yielded twice,
\* and when the end is signalled every message older than the initial
\* `before` (every message when there is none) has been yielded exactly
\* once.  It fails for a scan constructed with `after`: with after=1 and
\* pages of 1 over 1..4 the scan yields 2, then 1, and ends without 3
\* and 4.
C2_AsStated ==
    C2_AnyScan =>
        /\ NoDuplicates(out[1].yielded)
        /\ out[1].stops > 0 =>
              /\ Range(out[1].yielded) = OlderThanBefore
              /\ Len(out[1].yielded) = Cardinality(OlderThanBefore)

\* C2, amended: in an UP per-message scan constructed without `after`
\* each fetch is issued with the cursor the fetch before it left (the id
\* of the oldest message of its page), no id is yielded twice, none
\* outside the scan's range, and when the end is signalled every message
\* older than the initial `before` has been yielded exactly once.
C2_UpNoDupNoSkip ==
    C2_Scan =>
        /\ NoDuplicates(out[1].yielded)
        /\ Range(out[1].yielded) \subseteq OlderThanBefore
        /\ out[1].stops > 0 =>
              /\ Range(out[1].yielded) = OlderThanBefore
              /\ Len(out[1].yielded) = Cardinality(OlderThanBefore)
        /\ \A k \in 2..Len(api[1]) :
              LET prev == api[1][k - 1].page
              IN  prev # <<>> =>
                    /\ api[1][k].before = prev[Len(prev)]
                    /\ api[1][k].after = None

\* A scan from before=4 in pages of 2 took three fetches, yielded the
\* three older messages and ended.
C2_Witness ==
    /\ C2_Scan
    /\ Len(history) = 4 /\ args[1].before = 4 /\ args[1].chunk_size = 2
    /\ Len(api[1]) = 3
    /\ Len(out[1].yielded) = 3
    /\ out[1].stops = 1

\* ---- C3: DOWN, the `after` cursor ----------------------------------
\* C3: in a DOWN scan started with an `after` cursor, after a non-empty
\* fetch `after` is the id of the newest message of the fetched page, and
\* no message is fetched by two different fetches.
C3_DownAfterAdvances ==
    (/\ pc[1] = "ready"
     /\ args[1].direction = DOWN /\ args[1].after # None
     /\ Len(api[1]) > 0)
    =>
        LET log  == api[1]
            page == log[Len(log)].page
        IN  /\ page # <<>> => its[1].after = page[1]
            /\ \A j, k \in 1..Len(log) :
                  j < k => Range(log[j].page) \cap Range(log[k].page) = {}

\* ---- C4: the scan ends, within the channel's size -------------------
\* C4 (its bound): a paginator never yields more messages than the
\* channel holds.
C4_YieldedAtMostHistory ==
    \A i \in DOMAIN its :
        pc[i] = "ready" => Len(out[i].yielded) <= Len(history)

\* ---- C5: the empty page; EXHAUSTED is terminal ----------------------
\* next() was called on paginator i in this step.
Called(i) == out'[i].calls = out[i].calls + 1

\* The call of this step fetched, and the page was empty.
FetchedEmpty(i) ==
    /\ Len(api'[i]) = Len(api[i]) + 1
    /\ api'[i][Len(api'[i])].page = <<>>

\* C5: a next() whose fetch returns an empty page signals end-of-sequence
\* and yields nothing, and a next() that follows an end-of-sequence
\* signals it again and yields nothing.
C5_ExhaustedTerminal ==
    [][\A i \in DOMAIN its :
         Called(i) =>
            /\ FetchedEmpty(i) =>
                  /\ out'[i].result = "stop"
                  /\ out'[i].yielded = out[i].yielded
            /\ out[i].result = "stop" =>
                  /\ out'[i].result = "stop"
                  /\ out'[i].yielded = out[i].yielded
                  /\ FetchedEmpty(i)]_vars

\* A scan that yielded messages, ended, and was asked twice more.
C5_Witness ==
    /\ pc[1] = "ready"
    /\ Len(out[1].yielded) >= 2
    /\ out[1].stops = 3
    /\ out[1].result = "stop"

\* ---- C6: construction ----------------------------------------------
\* C6: construction raises exactly for a DOWN paginator given neither
\* cursor; a constructed paginator has an empty buffer, keeps its
\* arguments, and has issued no fetch before the first next().
C6_ConfigError ==
    pc[1] # "new" =>
        /\ pc[1] = "ConfigError" <=>
              (/\ args[1].direction = DOWN
               /\ args[1].before = None /\ args[1].after = None)
        /\ (pc[1] = "ready" /\ out[1].calls = 0) =>
              /\ its[1].buffer = <<>>
              /\ api[1] = <<>>
              /\ its[1].before = args[1].before
              /\ its[1].after = args[1].after
              /\ its[1].direction = args[1].direction

\* A DOWN construction without cursor has failed.
C6_Witness ==
    /\ pc[1] = "ConfigError"
    /\ args[1].direction = DOWN

\* ---- C8: the order of an UP per-message scan -------------------------
StrictlyDecreasing(s) == \A k \in 1..(Len(s) - 1) : s[k] > s[k + 1]

\* C8: an UP per-message scan yields message ids in strictly decreasing
\* order.
C8_UpYieldsDecreasing ==
    (pc[1] = "ready" /\ args[1].direction = UP /\ ~args[1].bulk)
    => StrictlyDecreasing(out[1].yielded)

\* ===================================================================
\* Under SpecPair: paginator 1 per message, paginator 2 in bulk.
\* ===================================================================
RECURSIVE Flatten(_)
Flatten(ss) == IF ss = <<>> THEN <<>> ELSE Head(ss) \o Flatten(Tail(ss))

\* How often m occurs in s.
Count(s, m) == Cardinality({k \in 1..Len(s) : s[k] = m})

SameMessages(s, t) ==
    /\ Len(s) = Len(t)
    /\ \A m \in Range(s) \cup Range(t) : Count(s, m) = Count(t, m)

\* The buffer a fetched page becomes: DOWN reverses it.
Buffered(a, page) == IF a.direction = UP THEN page ELSE Reverse(page)

\* C7: every bulk next() that returns hands out one whole fetched page,
\* non-empty, and leaves the buffer empty; the two modes issue the same
\* fetches; and when both scans have ended they have delivered the same
\* messages, as many times each.
C7_BulkEqualsPerMessage ==
    (pc[1] = "ready" /\ pc[2] = "ready") =>
        LET pages == NonEmptyPages(api[2])
            both  == Min(Len(api[1]), Len(api[2]))
        IN  /\ its[2].buffer = <<>>
            /\ Len(out[2].batches) = Len(pages)
            /\ \A k \in 1..Len(pages) :
                  /\ out[2].batches[k] # <<>>
                  /\ out[2].batches[k] = Buffered(args[2], pages[k])
            /\ out[2].yielded = Flatten(out[2].batches)
            /\ SubSeq(api[1], 1, both) = SubSeq(api[2], 1, both)
            /\ (out[1].stops > 0 /\ out[2].stops > 0) =>
                  SameMessages(out[1].yielded, out[2].yielded)

\* Both scans of 4 messages in pages of 3 have ended: four single
\* messages on one side, two batches on the other.
C7_Witness ==
    /\ pc[1] = "ready" /\ pc[2] = "ready"
    /\ Len(history) = 4 /\ args[1].chunk_size = 3
    /\ out[1].stops > 0 /\ out[2].stops > 0
    /\ Len(out[1].yielded) = 4
    /\ Len(out[2].batches) = 2

\* ===================================================================
\* Under SpecPerm: get_permissions.
\* ===================================================================
Matches(ow) ==
    \/ ow.id = user.id
    \/ (user.id \in DOMAIN guild.members
        /\ ow.id \in guild.members[user.id].roles)

\* C9: for a channel without guild_id, get_permissions returns the
\* administrator mask, whoever the user and whatever the overwrites, and
\* makes no guild or member lookup.
C9_NonGuildAdministrator ==
    (call.state # "idle" /\ channel.guild_id = None) =>
        /\ call.state = "returned"
        /\ call.value = ADMINISTRATOR
        /\ call.lookups = <<>>

\* A non-guild channel carrying an overwrite that denies ADMINISTRATOR to
\* the user, who is in no member list, has answered.
C9_Witness ==
    /\ call.state = "returned"
    /\ channel.guild_id = None
    /\ user.id \notin DOMAIN guild.members
    /\ \E k \in 1..Len(channel.overwrites) :
          /\ channel.overwrites[k].id = user.id
          /\ channel.overwrites[k].deny = ADMINISTRATOR
          /\ channel.overwrites[k].allow = 0

\* C10: for a guild channel with no overwrite get_permissions returns the
\* guild base mask; for a member of the guild it returns, the overwrites
\* that match neither the user nor one of the member's roles do not change
\* what it returns, and with no matching overwrite that is the guild base
\* mask.
C10_NonMatchingIgnored ==
    (call.state # "idle" /\ channel.guild_id # None) =>
        LET matching == SelectSeq(channel.overwrites, Matches)
        IN  /\ channel.overwrites = <<>> =>
                  /\ call.state = "returned"
                  /\ call.value = guild.permissions
            /\ user.id \in DOMAIN guild.members =>
                  /\ call.state = "returned"
                  /\ matching = <<>> => call.value = guild.permissions
                  /\ call.value =
                       get_permissions([channel EXCEPT !.overwrites = matching],
                                       user, guild).value

\* A guild channel whose two overwrites (another user's, and a role the
\* member does not hold) would both change the base, has answered.
C10_Witness ==
    /\ call.state = "returned"
    /\ channel.guild_id # None
    /\ user.id = 2
    /\ user.id \in DOMAIN guild.members
    /\ guild.members[user.id].roles = {3}
    /\ guild.permissions = 1
    /\ Len(channel.overwrites) = 2
    /\ \A k \in 1..2 :
          /\ ~Matches(channel.overwrites[k])
          /\ channel.overwrites[k].deny = 1
          /\ channel.overwrites[k].allow = ADMINISTRATOR

\* The overwrites that match the user, in iteration order.
Matching == SelectSeq(channel.overwrites, Matches)

\* get_permissions has returned for a guild channel.
GuildAnswer == call.state = "returned" /\ channel.guild_id # None

IsMember == user.id \in DOMAIN guild.members

\* C11: for a guild channel with exactly one matching overwrite ow, the
\* bits returned are those of the base that are not in ow.deny, together
\* with those of ow.allow (for a member the call always returns); so
\* with deny = every bit and allow = no bit no bit of the base is left.
C11_OneMatchingOverwrite ==
    (call.state # "idle" /\ channel.guild_id # None /\ Len(Matching) = 1) =>
        LET ow == Matching[1]
        IN  /\ IsMember => call.state = "returned"
            /\ call.state = "returned" =>
                  /\ BitsOf(call.value) =
                       (BitsOf(guild.permissions) \ BitsOf(ow.deny))
                          \cup BitsOf(ow.allow)
                  /\ (BitsOf(ow.deny) = PermBits /\ ow.allow = 0) =>
                        BitsOf(call.value) \cap BitsOf(guild.permissions) = {}

\* A member whose base holds both bits, with one overwrite of their own
\* that denies both and allows ADMINISTRATOR, is left with ADMINISTRATOR.
C11_Witness ==
    /\ GuildAnswer /\ IsMember
    /\ guild.permissions = 9
    /\ Len(channel.overwrites) = 2 /\ Len(Matching) = 1
    /\ Matching[1].id = user.id
    /\ Matching[1].deny = 9 /\ Matching[1].allow = ADMINISTRATOR
    /\ call.value = ADMINISTRATOR

\* The last overwrite of m (the matching ones, in iteration order) that
\* names bit b in allow or in deny; 0 when none does.
LastNaming(m, b) ==
    LET naming == {k \in 1..Len(m) :
                      b \in BitsOf(m[k].allow) \cup BitsOf(m[k].deny)}
    IN  IF naming = {} THEN 0
        ELSE CHOOSE k \in naming : \A j \in naming : j <= k

\* A role overwrite that denies (and does not allow) bit b, and the user's
\* own overwrite that allows it, are the two overwrites of the channel.
Conflict(b) ==
    /\ Len(channel.overwrites) = 2
    /\ \E d, r \in 1..2 :
          LET own  == channel.overwrites[d]
              role == channel.overwrites[r]
          IN  /\ own.id = user.id /\ b \in BitsOf(own.allow)
              /\ role.id # user.id /\ Matches(role)
              /\ b \in BitsOf(role.deny) \ BitsOf(role.allow)

\* C12: each bit of the result is decided by the last matching overwrite
\* that names it (set if that overwrite allows it, cleared if it only
\* denies it, the base's bit when none names it); so with a role overwrite
\* denying bit b and the user's own allowing it, b is granted exactly when
\* the user's own comes last, and the other order gives the other answer.
C12_LastOverwriteWins ==
    GuildAnswer =>
        LET m == Matching
        IN  \A b \in 0..(PermWidth - 1) :
              LET last == LastNaming(m, b)
              IN  /\ HasBit(call.value, b) =
                       IF last = 0
                       THEN HasBit(guild.permissions, b)
                       ELSE b \in BitsOf(m[last].allow)
                  /\ Conflict(b) =>
                       /\ HasBit(call.value, b) = (m[2].id = user.id)
                       /\ HasBit(get_permissions(
                                     [channel EXCEPT !.overwrites = Reverse(@)],
                                     user, guild).value, b)
                            = ~HasBit(call.value, b)

\* Role 3 denies ADMINISTRATOR, then the user's own overwrite allows it:
\* granted, from a base without it.
C12_Witness ==
    /\ GuildAnswer /\ IsMember
    /\ Conflict(3)
    /\ Matching[1].id = 3 /\ Matching[2].id = user.id
    /\ guild.permissions = 0
    /\ HasBit(call.value, 3)

\* C13: for a user who is not a member of the channel's guild,
\* get_permissions on a guild channel raises and returns no mask.
C13_NonMemberRaises ==
    (call.state # "idle" /\ channel.guild_id # None /\ ~IsMember)
    => call.state = "raised"

\* The permutations of 1..n, for every length an overwrites dict may have.
IndexOrders ==
    [n \in 0..MaxOverwrites |->
        {q \in [1..n -> 1..n] : \A j, k \in 1..n : j # k => q[j] # q[k]}]

\* All orders of a sequence.
Orders(s) == {[k \in 1..Len(s) |-> s[p[k]]] : p \in IndexOrders[Len(s)]}

\* No bit is allowed by one overwrite of m and denied by another.
NoConflict(m) ==
    \A j, k \in 1..Len(m) :
        j # k => BitsOf(m[j].allow) \cap BitsOf(m[k].deny) = {}

\* C20: when no bit is in the allow mask of one matching overwrite and in
\* the deny mask of another, the result is the base without the union of
\* the matching deny masks, with the union of the matching allow masks,
\* and every order of the overwrites gives that same result.
C20_OrderIndependent ==
    GuildAnswer =>
        LET m == Matching
        IN  NoConflict(m) =>
              LET deny  == UNION {BitsOf(m[k].deny) : k \in 1..Len(m)}
                  allow == UNION {BitsOf(m[k].allow) : k \in 1..Len(m)}
              IN  /\ BitsOf(call.value) =
                       (BitsOf(guild.permissions) \ deny) \cup allow
                  /\ \A o \in Orders(channel.overwrites) :
                        LET r == get_permissions(
                                     [channel EXCEPT !.overwrites = o],
                                     user, guild)
                        IN  ~r.raised /\ r.value = call.value

\* Two matching overwrites without conflict: the user's own denies bit 0,
\* role 3 allows ADMINISTRATOR; the base held bit 0 only.
C20_Witness ==
    /\ GuildAnswer /\ IsMember /\ NoConflict(Matching)
    /\ Len(Matching) = 2
    /\ Matching[1].id = user.id /\ Matching[1].deny = 1 /\ Matching[1].allow = 0
    /\ Matching[2].id = 3 /\ Matching[2].deny = 0
    /\ Matching[2].allow = ADMINISTRATOR
    /\ guild.permissions = 1
    /\ call.value = ADMINISTRATOR

\* ===================================================================
\* Under Spec again: the cursors and the order within a page.
\* ===================================================================
StrictlyIncreasing(s) == \A k \in 1..(Len(s) - 1) : s[k] < s[k + 1]

\* The last element of a non-empty sequence.
Last(s) == s[Len(s)]

\* C15: in an UP scan, once a fetch has returned messages, `after` is
\* absent and `before` is the id of the last message of the latest
\* non-empty page, which is the oldest of that page; from one non-empty
\* fetch to the next that id strictly decreases.
C15_UpBeforeDecreases ==
    (/\ pc[1] = "ready" /\ args[1].direction = UP
     /\ NonEmptyPages(api[1]) # <<>>)
    =>
        LET pages == NonEmptyPages(api[1])
            page  == Last(pages)
        IN  /\ its[1].after = None
            /\ its[1].before = Last(page)
            /\ \A m \in Range(page) : Last(page) <= m
            /\ \A k \in 2..Len(pages) : Last(pages[k]) < Last(pages[k - 1])

\* An UP scan of 4 messages in pages of 2, after its second fetch:
\* `before` went from 3 to 1.
C15_Witness ==
    /\ pc[1] = "ready" /\ args[1].direction = UP
    /\ Len(history) = 4 /\ args[1].chunk_size = 2
    /\ args[1].before = None
    /\ Len(NonEmptyPages(api[1])) = 2
    /\ api[1][2].before = 3
    /\ its[1].before = 1

\* C16: in a DOWN per-message scan the buffer holds what is left of the
\* page oldest first, and the messages of each fetched page are yielded
\* in the order the page arrived, newest first.
C16_DownYieldsNewestFirst ==
    (pc[1] = "ready" /\ args[1].direction = DOWN /\ ~args[1].bulk) =>
        /\ StrictlyIncreasing(its[1].buffer)
        /\ out[1].yielded \o Reverse(its[1].buffer)
             = Flatten(NonEmptyPages(api[1]))
        /\ \A k \in 1..Len(api[1]) : StrictlyDecreasing(api[1][k].page)

\* A DOWN scan from after=1 has fetched <<4, 3, 2>> once and yielded 4,
\* then 3, then 2.
C16_Witness ==
    /\ pc[1] = "ready" /\ args[1].direction = DOWN /\ ~args[1].bulk
    /\ args[1].after = 1 /\ args[1].before = None
    /\ Len(api[1]) = 1
    /\ api[1][1].page = <<4, 3, 2>>
    /\ out[1].yielded = <<4, 3, 2>>

C19_Scan ==
    /\ pc[1] = "ready" /\ args[1].direction = UP
    /\ args[1].before # None /\ args[1].after # None

\* C19: an UP scan built with both cursors passes `after` to its first
\* fetch only: once a page has come back `after` is None in the paginator
\* and in every later fetch, and when the scan ends it has delivered every
\* message older than the initial `before`, those at or below the initial
\* `after` included.
C19_AfterFirstFetchOnly ==
    (C19_Scan /\ Len(api[1]) > 0) =>
        /\ api[1][1].before = args[1].before
        /\ api[1][1].after = args[1].after
        /\ api[1][1].page # <<>> =>
              /\ its[1].after = None
              /\ \A k \in 2..Len(api[1]) : api[1][k].after = None
              /\ out[1].stops > 0 =>
                    Range(out[1].yielded) =
                       {m \in Range(history) : m < args[1].before}
        /\ api[1][1].page = <<>> =>
              /\ its[1].after = args[1].after
              /\ out[1].yielded = <<>>

\* A scan with before=4 and after=2 over 4 messages has ended having
\* delivered 3, and then 2 and 1 from below the `after` cursor.
C19_Witness ==
    /\ C19_Scan
    /\ Len(history) = 4
    /\ args[1].before = 4 /\ args[1].after = 2
    /\ out[1].stops > 0
    /\ Range(out[1].yielded) = {1, 2, 3}


\* ===================================================================
\* Under SpecDelete: the remote calls delete_messages issues.
\* ===================================================================
Singles == SelectSeq(deletion.calls,
                     LAMBDA c : c.route = "channels_messages_delete")

Bulks == SelectSeq(deletion.calls,
                   LAMBDA c : c.route = "channels_messages_delete_bulk")

\* The ids of the input, in input order.
InputIds == [k \in 1..Len(deletion.input) |-> deletion.input[k].id]

\* The ids the calls carry, call after call.
CalledIds == Flatten([k \in 1..Len(deletion.calls) |-> deletion.calls[k].ids])

\* What the call is said to issue for its n ids.
DeleteCallsAsStated ==
    LET n == Len(deletion.input)
    IN  /\ deletion.state = "returned"
        /\ n = 0 => deletion.calls = <<>>
        /\ (1 <= n /\ n <= SingleMax) =>
              /\ Len(Singles) = n /\ Bulks = <<>>
              /\ \A k \in 1..n : deletion.calls[k].ids = <<InputIds[k]>>
        /\ n > SingleMax =>
              /\ Singles = <<>>
              /\ Len(Bulks) = (n + BulkLimit - 1) \div BulkLimit
              /\ \A k \in 1..Len(Bulks) : Len(Bulks[k].ids) <= BulkLimit
              /\ CalledIds = InputIds

\* C14: delete_messages with n ids issues no call for n = 0, n single
\* deletes and no bulk delete for 1 <= n <= 2, and for n >= 3 no single
\* delete and ceil(n/100) bulk deletes of at most 100 ids each, carrying
\* every id once in input order.
C14_DeleteCalls ==
    deletion.state # "idle" => DeleteCallsAsStated

\* Where `map` gives a list (Python 2) the calls are as stated.
DeleteCallsOnPython2 ==
    (deletion.state # "idle" /\ deletion.python = 2) => DeleteCallsAsStated

\* 150 ids on Python 2: two bulk calls, of 100 and of 50.
DeleteOf150 ==
    /\ deletion.python = 2
    /\ Len(deletion.input) = 150
    /\ deletion.state = "returned"
    /\ Len(deletion.calls) = 2
    /\ Len(deletion.calls[1].ids) = 100
    /\ Len(deletion.calls[2].ids) = 50

\* ===================================================================
\* Under SpecFail: a fetch that fails.
\* ===================================================================
\* The request part of a fetch record.
Request(r) == [before |-> r.before, after |-> r.after, limit |-> r.limit]

\* This step is a next() on paginator 1 whose fetch failed.
Failing == failed' # failed /\ Last(failed').it = 1

\* Every message delivered or still buffered came from a fetched page, and
\* every fetched message is delivered or buffered: once each.
NothingLostOrDoubled ==
    SameMessages(out[1].yielded \o its[1].buffer,
                 Flatten(NonEmptyPages(api[1])))

\* C18: when the fetch inside next() fails, the caller sees the upstream
\* error itself and the paginator's buffer, `before` and `after` are as
\* they were; the next fetch, failing or not, is the same request again;
\* and what has been delivered is exactly what the fetched pages held, a
\* full UP scan still delivering every message once.
C18_FailureLeavesCursors ==
    /\ [][Failing =>
            /\ its'[1] = its[1]
            /\ out'[1].result = "error"
            /\ out'[1].yielded = out[1].yielded
            /\ Last(failed').seen = Last(failed').upstream]_vars
    /\ [][(out[1].result = "error" /\ api'[1] # api[1]) =>
            Request(Last(api'[1])) = Request(Last(failed))]_vars
    /\ [][(out[1].result = "error" /\ Failing) =>
            Request(Last(failed')) = Request(Last(failed))]_vars
    /\ [](pc[1] = "ready" => NothingLostOrDoubled)
    /\ [](C2_Scan =>
            /\ NoDuplicates(out[1].yielded)
            /\ Range(out[1].yielded) \subseteq OlderThanBefore
            /\ out[1].stops > 0 =>
                  Range(out[1].yielded) = OlderThanBefore)

\* An UP scan of 4 messages in pages of 2 whose second fetch (before=3)
\* failed and was issued again: the scan has ended with 4, 3, 2, 1
\* delivered.
C18_Witness ==
    /\ C2_Scan
    /\ Len(history) = 4 /\ args[1].chunk_size = 2
    /\ args[1].before = None
    /\ Len(failed) = 1
    /\ failed[1].before = 3
    /\ Len(api[1]) = 3
    /\ api[1][2].before = 3
    /\ out[1].stops > 0
    /\ out[1].yielded = <<3, 4, 1, 2>>

\* ===================================================================
\* Under SpecConc: two callers inside next() on one paginator.
\* ===================================================================
\* A non-empty page was fetched twice with the same cursors.
SamePageTwice ==
    \E j, k \in 1..Len(api[1]) :
        /\ j < k
        /\ api[1][j].page # <<>>
        /\ api[1][j] = api[1][k]

\* A message was handed out more than once.
DeliveredTwice == ~NoDuplicates(out[1].yielded)

\* C17: with two callers of one UP paginator whose steps interleave, a
\* page is fetched twice with the same cursors or a message is delivered
\* twice; it happens only when two next() calls have overlapped.
C17_DuplicatesNeedOverlap ==
    (pc[1] = "ready" /\ (SamePageTwice \/ DeliveredTwice)) => overlap

\* Both callers issued their request before either answer was stored: the
\* page <<4>> was fetched twice with before=None and message 4 went to
\* each of the two callers.
C17_Witness ==
    /\ pc[1] = "ready"
    /\ Len(history) = 4 /\ args[1].chunk_size = 1 /\ ~args[1].bulk
    /\ args[1].before = None /\ args[1].after = None
    /\ overlap
    /\ SamePageTwice
    /\ Len(api[1]) = 2
    /\ api[1][1].page = <<4>> /\ api[1][2].page = <<4>>
    /\ threads[1].got = <<4>> /\ threads[2].got = <<4>>
    /\ its[1].before = 4 /\ its[1].buffer = <<>>

=============================================================================
